---------------------------- MODULE Spec2Model ----------------------------
(***************************************************************************)
(* csv-to-anki: the column-slice CSV partitioner (csv-partitioner/lib.rs)  *)
(* and its callers.                                                        *)
(*                                                                         *)
(* A cell is a sequence of one-character strings, so that trimming is an   *)
(* operation on the text and not the identity.  A record (csv              *)
(* StringRecord) is a sequence of cells.  Rust indices are 0-based; the    *)
(* operators below take and return 0-based column and row indices and      *)
(* shift by one only where they index a TLA+ sequence.                     *)
(*                                                                         *)
(* usize arithmetic is modelled on the naturals: the indices and widths    *)
(* drawn here are far below 2^64, so no product i * COLUMN_COUNT wraps.    *)
(***************************************************************************)
EXTENDS Integers, Sequences, FiniteSets, TLC

VARIABLES
    pc,            \* "new": no parser yet; "ready": parser built, no call in
                   \* progress; "iter": a lazy iterator is live; "failed":
                   \* the constructor returned Err
    source,        \* what the constructor was given (file contents or records)
    parser,        \* CsvSliceParser { headers, records, config }
    COLUMN_COUNT,  \* T::COLUMN_COUNT of the record type being decoded
    loaded,        \* history: the parser as the constructor returned it
    op,            \* the last slice operation called and its slice_index
    ret,           \* what that operation returned
    calls,         \* T::from_record invocations it made, in order
    checks,        \* has_empty_fields invocations it made, in order (row indices)
    iter,          \* the lazy iterator of parse_slice_iter
    yielded,       \* the items pulled from the iterator so far
    step,          \* main.rs run(): where the run stands
    topics,        \* the Vec<Topic> parse_topics_from_csv returned
    requests,      \* the requests sent to AnkiConnect, in order, with their outcomes
    results,       \* import_all_topics: the Vec<ImportResult> built so far
    add_results    \* add_notes: the Vec<Result<i64, String>> of its last call

\* the importer's part of the state, untouched by the parser's operations
appVars == <<step, topics, requests, results, add_results>>

vars == <<pc, source, parser, COLUMN_COUNT, loaded, op, ret, calls, checks, iter, yielded,
          step, topics, requests, results, add_results>>

---------------------------------------------------------------------------
\* Bounds of the model.

\* SpecPart: header widths 0..MaxHeaderLen, widths 1..MaxWidth, indices 0..MaxIndex
MaxHeaderLen == 6
MaxWidth == 3
MaxIndex == 3
\* Spec, SpecLoad: records of at most MaxCols cells, at most MaxRows rows
MaxCols == 2
MaxRows == 2
\* SpecLoad: data rows in the file
MaxFileRows == 1
\* SpecWord: header widths 0..MaxWordCols
MaxWordCols == 3

\* Word::COLUMN_COUNT
WordColumnCount == 3

---------------------------------------------------------------------------
\* Values.

Min(S) == CHOOSE x \in S : \A y \in S : x <= y

SeqsUpTo(S, n) == UNION {[1..k -> S] : k \in 0..n}

\* Option<T>
None == [tag |-> "None"]
Some(v) == [tag |-> "Some", val |-> v]

\* Result<T, Box<dyn Error>>
Ok(v) == [tag |-> "Ok", val |-> v]

\* the message built by validate_slice_index
OutOfBounds(slice_index, start_col, end_col, header_len) ==
    [tag |-> "OutOfBounds", slice_index |-> slice_index, start |-> start_col,
     end |-> end_col, header_len |-> header_len]

\* the error a decoder returns: which field of the slice was missing
DecodeError(field) == [tag |-> "DecodeError", field |-> field]

NoValue == [tag |-> "Nothing"]
NoOp == [name |-> "none", slice_index |-> 0]
NoIter == [live |-> FALSE, start_col |-> 0, end_col |-> 0, pos |-> 0, exhausted |-> FALSE]

\* StringRecord::get(i)
Get(record, i) == IF i < Len(record) THEN Some(record[i + 1]) ELSE None

IsWhitespace(c) == c = " "

RECURSIVE TrimStart(_)
TrimStart(s) ==
    IF s = <<>> THEN s
    ELSE IF IsWhitespace(Head(s)) THEN TrimStart(Tail(s)) ELSE s

RECURSIVE TrimEnd(_)
TrimEnd(s) ==
    IF s = <<>> THEN s
    ELSE IF IsWhitespace(s[Len(s)]) THEN TrimEnd(SubSeq(s, 1, Len(s) - 1)) ELSE s

\* str::trim, and csv::Trim applied to one field
Trim(s) == TrimEnd(TrimStart(s))

\* ParseConfig::default(); reserve_capacity only pre-sizes vectors and is left out
DefaultConfig == [skip_empty_rows |-> TRUE, trim_fields |-> TRUE]

---------------------------------------------------------------------------
\* CsvSliceParser: the pure part of each method.  self is the parser,
\* w the COLUMN_COUNT of the type parameter T.

slice_count_ceil(self, w) == (Len(self.headers) + w - 1) \div w

slice_count(self, w) == Len(self.headers) \div w

validate_slice_index_ge(self, w, slice_index) ==
    LET start_col == slice_index * w
        end_col == start_col + w
    IN  IF end_col >= Len(self.headers)
        THEN OutOfBounds(slice_index, start_col, end_col, Len(self.headers))
        ELSE Ok(<<start_col, end_col>>)

validate_slice_index(self, w, slice_index) ==
    LET start_col == slice_index * w
        end_col == start_col + w
    IN  IF end_col > Len(self.headers)
        THEN OutOfBounds(slice_index, start_col, end_col, Len(self.headers))
        ELSE Ok(<<start_col, end_col>>)

\* (start_col..end_col).filter_map(|i| self.headers.get(i)).collect()
HeaderRange(self, start_col, end_col) ==
    LET cols == {i \in start_col..(end_col - 1) : i < Len(self.headers)}
    IN  [k \in 1..Cardinality(cols) |-> self.headers[start_col + k]]

\* end_col is slice_index + COLUMN_COUNT in the source, not start_col + COLUMN_COUNT
slice_headers(self, w, slice_index) ==
    LET start_col == slice_index * w
        end_col == slice_index + w
    IN  IF end_col > Len(self.headers)
        THEN None
        ELSE Some(HeaderRange(self, start_col, end_col))

---------------------------------------------------------------------------
\* Row filter and decoder.

has_empty_fields_any(start_col, end_col, record) ==
    \E i \in start_col..(end_col - 1) :
        LET c == Get(record, i) IN c.tag = "None" \/ Trim(c.val) = <<>>

\* (start_col..end_col).all(|i| record.get(i).map_or(true, |s| s.trim().is_empty()))
has_empty_fields(start_col, end_col, record) ==
    \A i \in start_col..(end_col - 1) :
        LET c == Get(record, i) IN c.tag = "None" \/ Trim(c.val) = <<>>

\* a mutant of the decoder: a missing field reads as the empty string
from_record_lenient(record, start_col, w) ==
    Ok([k \in 1..w |-> IF start_col + k <= Len(record) THEN record[start_col + k] ELSE <<>>])

\* T::from_record as the repository implements it (Word, and the trait's
\* documented examples): each of the COLUMN_COUNT fields is
\* record.get(start_col + k).ok_or("Missing ...")?, in field order, and the
\* cells are copied untouched.
from_record(record, start_col, w) ==
    LET missing == {k \in 0..(w - 1) : Get(record, start_col + k).tag = "None"}
    IN  IF missing # {}
        THEN DecodeError(Min(missing))
        ELSE Ok([k \in 1..w |-> record[start_col + k]])

Call(row, start_col) == [row |-> row, start_col |-> start_col]

NoTrace == [results |-> <<>>, calls |-> <<>>, checks |-> <<>>]

\* a mutant of the loop: a row the decoder rejects is dropped and the loop goes on
RECURSIVE parse_rows_lenient(_, _, _, _, _, _)
parse_rows_lenient(self, w, start_col, end_col, k, acc) ==
    IF k >= Len(self.records)
    THEN [ret |-> Ok(acc.results), calls |-> acc.calls, checks |-> acc.checks]
    ELSE LET record == self.records[k + 1]
             skip == self.config.skip_empty_rows
             checked == IF skip THEN Append(acc.checks, k) ELSE acc.checks
         IN  IF skip /\ has_empty_fields(start_col, end_col, record)
             THEN parse_rows_lenient(self, w, start_col, end_col, k + 1,
                                     [acc EXCEPT !.checks = checked])
             ELSE LET d == from_record(record, start_col, w)
                      called == Append(acc.calls, Call(k, start_col))
                  IN  parse_rows_lenient(self, w, start_col, end_col, k + 1,
                             [results |-> IF d.tag = "Ok"
                                          THEN Append(acc.results, d.val)
                                          ELSE acc.results,
                              calls |-> called, checks |-> checked])

\* parse_slice's loop `for record in &self.records`, from row k on; acc holds
\* the results pushed and the filter and decoder invocations made so far.
\* The `?` on from_record returns the error at once, dropping the results.
RECURSIVE parse_rows(_, _, _, _, _, _)
parse_rows(self, w, start_col, end_col, k, acc) ==
    IF k >= Len(self.records)
    THEN [ret |-> Ok(acc.results), calls |-> acc.calls, checks |-> acc.checks]
    ELSE LET record == self.records[k + 1]
             skip == self.config.skip_empty_rows
             checked == IF skip THEN Append(acc.checks, k) ELSE acc.checks
         IN  IF skip /\ has_empty_fields(start_col, end_col, record)
             THEN parse_rows(self, w, start_col, end_col, k + 1,
                             [acc EXCEPT !.checks = checked])
             ELSE LET d == from_record(record, start_col, w)
                      called == Append(acc.calls, Call(k, start_col))
                  IN  IF d.tag # "Ok"
                      THEN [ret |-> d, calls |-> called, checks |-> checked]
                      ELSE parse_rows(self, w, start_col, end_col, k + 1,
                                      [results |-> Append(acc.results, d.val),
                                       calls |-> called, checks |-> checked])

\* parse_slice: the value returned, with the decoder and filter invocations made
parse_slice(self, w, slice_index) ==
    LET v == validate_slice_index(self, w, slice_index)
    IN  IF v.tag # "Ok"
        THEN [ret |-> v, calls |-> <<>>, checks |-> <<>>]
        ELSE parse_rows(self, w, v.val[1], v.val[2], 0, NoTrace)

\* a mutant of the loop: a failed slice is left out and the loop goes on
RECURSIVE all_slices_loop_lenient(_, _, _, _)
all_slices_loop_lenient(self, w, i, acc) ==
    IF i >= slice_count(self, w)
    THEN [ret |-> Ok(acc.results), calls |-> acc.calls, checks |-> acc.checks]
    ELSE LET r == parse_slice(self, w, i)
         IN  all_slices_loop_lenient(self, w, i + 1,
                 [results |-> IF r.ret.tag = "Ok"
                              THEN Append(acc.results, r.ret.val)
                              ELSE acc.results,
                  calls |-> acc.calls \o r.calls,
                  checks |-> acc.checks \o r.checks])

\* parse_all_slices' loop `for i in 0..slice_count`, from slice i on
RECURSIVE all_slices_loop(_, _, _, _)
all_slices_loop(self, w, i, acc) ==
    IF i >= slice_count(self, w)
    THEN [ret |-> Ok(acc.results), calls |-> acc.calls, checks |-> acc.checks]
    ELSE LET r == parse_slice(self, w, i)
             called == acc.calls \o r.calls
             checked == acc.checks \o r.checks
         IN  IF r.ret.tag # "Ok"
             THEN [ret |-> r.ret, calls |-> called, checks |-> checked]
             ELSE all_slices_loop(self, w, i + 1,
                                  [results |-> Append(acc.results, r.ret.val),
                                   calls |-> called, checks |-> checked])

parse_all_slices(self, w) == all_slices_loop(self, w, 0, NoTrace)

\* a mutant of the pull: the closure looks one row ahead of the item it returns
RECURSIVE iter_next_ahead(_, _, _, _, _)
iter_next_ahead(self, w, it, k, checked) ==
    IF k >= Len(self.records)
    THEN [item |-> None, pos |-> k, calls |-> <<>>, checks |-> checked]
    ELSE LET record == self.records[k + 1]
             skip == self.config.skip_empty_rows
             checked2 == IF skip THEN Append(checked, k) ELSE checked
         IN  IF skip /\ has_empty_fields(it.start_col, it.end_col, record)
             THEN iter_next_ahead(self, w, it, k + 1, checked2)
             ELSE [item |-> Some(from_record(record, it.start_col, w)),
                   pos |-> k + 1,
                   calls |-> IF k + 1 < Len(self.records)
                             THEN <<Call(k, it.start_col), Call(k + 1, it.start_col)>>
                             ELSE <<Call(k, it.start_col)>>,
                   checks |-> checked2]

\* a mutant of the pull: the closure never filters
iter_next_nofilter(self, w, it, k, checked) ==
    IF k >= Len(self.records)
    THEN [item |-> None, pos |-> k, calls |-> <<>>, checks |-> checked]
    ELSE [item |-> Some(from_record(self.records[k + 1], it.start_col, w)),
          pos |-> k + 1, calls |-> <<Call(k, it.start_col)>>, checks |-> checked]

\* One next() of the iterator parse_slice_iter returns:
\* self.records.iter().filter_map(closure).  filter_map takes rows from
\* position k until the closure returns Some; a row the filter rejects costs
\* one has_empty_fields call and no decoder call.
RECURSIVE iter_next(_, _, _, _, _)
iter_next(self, w, it, k, checked) ==
    IF k >= Len(self.records)
    THEN [item |-> None, pos |-> k, calls |-> <<>>, checks |-> checked]
    ELSE LET record == self.records[k + 1]
             skip == self.config.skip_empty_rows
             checked2 == IF skip THEN Append(checked, k) ELSE checked
         IN  IF skip /\ has_empty_fields(it.start_col, it.end_col, record)
             THEN iter_next(self, w, it, k + 1, checked2)
             ELSE [item |-> Some(from_record(record, it.start_col, w)),
                   pos |-> k + 1,
                   calls |-> <<Call(k, it.start_col)>>,
                   checks |-> checked2]

---------------------------------------------------------------------------
\* Constructors.

\* CsvSliceParser::from_records: the data is stored as given
from_records(headers, records, config) ==
    [headers |-> headers, records |-> records, config |-> config]

TrimRecord(record) == [k \in 1..Len(record) |-> Trim(record[k])]

\* CsvSliceParser::from_file_with_config.  file is what File::open and the csv
\* reader see: whether the path can be opened, the first record, and the data
\* records.  The reader is built with has_headers(true) and trim(csv::Trim::All)
\* whatever config says, and is not flexible: a data record whose field count
\* differs from the first record's makes `result?` return the reader's error.
from_file_with_config(file, config) ==
    IF ~file.readable
    THEN [tag |-> "IOError"]
    ELSE IF \E r \in 1..Len(file.rows) : Len(file.rows[r]) # Len(file.headers)
    THEN [tag |-> "FormatError"]
    ELSE Ok([headers |-> TrimRecord(file.headers),
             records |-> [r \in 1..Len(file.rows) |-> TrimRecord(file.rows[r])],
             config |-> config])

NoParser == from_records(<<>>, <<>>, DefaultConfig)

\* FromFile: the caller runs from_file_with_config on the source
FromFile ==
    /\ pc = "new"
    /\ LET r == from_file_with_config(source, parser.config)
       IN  \/ /\ r.tag = "Ok"
              /\ pc' = "ready"
              /\ parser' = r.val
              /\ loaded' = r.val
              /\ ret' = Ok(<<>>)
           \/ /\ r.tag # "Ok"
              /\ pc' = "failed"
              /\ ret' = r
              /\ UNCHANGED <<parser, loaded>>
    /\ op' = [name |-> "from_file_with_config", slice_index |-> 0]
    /\ UNCHANGED <<source, COLUMN_COUNT, calls, checks, iter, yielded>>
    /\ UNCHANGED appVars

---------------------------------------------------------------------------
\* Slice operations, one action per call on &self.

Returns(name, slice_index, r) ==
    /\ op' = [name |-> name, slice_index |-> slice_index]
    /\ ret' = r.ret
    /\ calls' = r.calls
    /\ checks' = r.checks
    /\ UNCHANGED <<pc, source, parser, COLUMN_COUNT, loaded, iter, yielded>>
    /\ UNCHANGED appVars

Pure(v) == [ret |-> v, calls |-> <<>>, checks |-> <<>>]

\* the parser is built and the caller holds no result of an earlier call
Idle == pc = "ready" /\ op = NoOp

SliceCount ==
    /\ Idle
    /\ Returns("slice_count", 0, Pure(slice_count(parser, COLUMN_COUNT)))

ValidateSliceIndex(i) ==
    /\ Idle
    /\ Returns("validate_slice_index", i, Pure(validate_slice_index(parser, COLUMN_COUNT, i)))

SliceHeaders(i) ==
    /\ Idle
    /\ Returns("slice_headers", i, Pure(slice_headers(parser, COLUMN_COUNT, i)))

ParseSlice(i) ==
    /\ Idle
    /\ Returns("parse_slice", i, parse_slice(parser, COLUMN_COUNT, i))

ParseAllSlices ==
    /\ Idle
    /\ Returns("parse_all_slices", 0, parse_all_slices(parser, COLUMN_COUNT))

\* parse_slice_iter: the bounds are validated at the call (the `?`), and the
\* iterator returned has touched no row yet.  Its caller (parse.rs,
\* TopicWithWordIter::words) takes the return value as
\* Result<impl Iterator<Item = Result<T, _>>, _>.
ParseSliceIter(i) ==
    /\ Idle
    /\ LET v == validate_slice_index(parser, COLUMN_COUNT, i)
       IN  /\ ret' = v
           /\ IF v.tag = "Ok"
              THEN /\ pc' = "iter"
                   /\ iter' = [live |-> TRUE, start_col |-> v.val[1],
                               end_col |-> v.val[2], pos |-> 0, exhausted |-> FALSE]
              ELSE /\ pc' = "ready"
                   /\ iter' = NoIter
    /\ op' = [name |-> "parse_slice_iter", slice_index |-> i]
    /\ calls' = <<>>
    /\ checks' = <<>>
    /\ yielded' = <<>>
    /\ UNCHANGED <<source, parser, COLUMN_COUNT, loaded>>
    /\ UNCHANGED appVars

\* a mutant of the pull: the rows are drained from the parser as they are read
IterNextDrain ==
    /\ pc = "iter"
    /\ LET r == iter_next(parser, COLUMN_COUNT, iter, 0, <<>>)
       IN  /\ ret' = r.item
           /\ yielded' = IF r.item.tag = "Some" THEN Append(yielded, r.item.val) ELSE yielded
           /\ iter' = [iter EXCEPT !.pos = 0, !.exhausted = (r.item.tag = "None")]
           /\ calls' = calls \o r.calls
           /\ checks' = checks \o r.checks
           /\ parser' = [parser EXCEPT !.records =
                            SubSeq(parser.records, r.pos + 1, Len(parser.records))]
    /\ UNCHANGED <<pc, source, COLUMN_COUNT, loaded, op>>
    /\ UNCHANGED appVars

\* The caller pulls one item: Iterator::next on the filter_map.  After None
\* the slice iterator stays exhausted and a further pull returns None again.
IterNext ==
    /\ pc = "iter"
    /\ LET r == iter_next(parser, COLUMN_COUNT, iter, iter.pos, <<>>)
       IN  /\ ret' = r.item
           /\ yielded' = IF r.item.tag = "Some" THEN Append(yielded, r.item.val) ELSE yielded
           /\ iter' = [iter EXCEPT !.pos = r.pos, !.exhausted = (r.item.tag = "None")]
           /\ calls' = calls \o r.calls
           /\ checks' = checks \o r.checks
    /\ UNCHANGED <<pc, source, parser, COLUMN_COUNT, loaded, op>>
    /\ UNCHANGED appVars

\* The caller drops the iterator, consumed or not
IterDrop ==
    /\ pc = "iter"
    /\ pc' = "ready"
    /\ iter' = NoIter
    /\ UNCHANGED <<source, parser, COLUMN_COUNT, loaded, op, ret, calls, checks, yielded>>
    /\ UNCHANGED appVars

\* The caller is done with what the last call returned
Forget ==
    /\ pc = "ready"
    /\ op # NoOp
    /\ op' = NoOp
    /\ ret' = NoValue
    /\ calls' = <<>>
    /\ checks' = <<>>
    /\ yielded' = <<>>
    /\ UNCHANGED <<pc, source, parser, COLUMN_COUNT, loaded, iter>>
    /\ UNCHANGED appVars

---------------------------------------------------------------------------
\* Inputs.

\* a header of n columns with distinct names: column k is named by k + 1 letters
ColumnName(k) == [j \in 1..(k + 1) |-> "a"]
Header(n) == [k \in 1..n |-> ColumnName(k - 1)]

\* cells of in-memory records: blank but not empty, and non-blank
DataCells == {<<" ">>, <<"a">>}

\* cells of a file, before the reader trims them
FileCells == {<<" ">>, <<"a">>, <<" ", "a", " ">>}

Quiet ==
    /\ op = NoOp
    /\ ret = NoValue
    /\ calls = <<>>
    /\ checks = <<>>
    /\ iter = NoIter
    /\ yielded = <<>>
    /\ step = "start"
    /\ topics = <<>>
    /\ requests = <<>>
    /\ results = <<>>
    /\ add_results = <<>>

\* SpecPart: a parser over a header of any width up to MaxHeaderLen and no
\* rows; the partitioner's three queries.
InitPart ==
    /\ pc = "ready"
    /\ \E n \in 0..MaxHeaderLen :
          source = [readable |-> TRUE, headers |-> Header(n), rows |-> <<>>]
    /\ parser = from_records(source.headers, source.rows, DefaultConfig)
    /\ loaded = parser
    /\ COLUMN_COUNT \in 1..MaxWidth
    /\ Quiet

NextPart ==
    \/ SliceCount
    \/ \E i \in 0..MaxIndex : ValidateSliceIndex(i)
    \/ \E i \in 0..MaxIndex : SliceHeaders(i)
    \/ Forget

SpecPart == InitPart /\ [][NextPart]_vars

\* Spec: a parser built by from_records over rows that may be shorter than
\* the header and may hold untrimmed cells; every slice operation.
\* trim_fields is read by no slice operation and stays at its default.
Init ==
    /\ pc = "ready"
    /\ \E n \in 0..MaxCols :
          \E rows \in SeqsUpTo(SeqsUpTo(DataCells, n), MaxRows) :
              source = [readable |-> TRUE, headers |-> Header(n), rows |-> rows]
    /\ \E skip \in BOOLEAN :
          parser = from_records(source.headers, source.rows,
                                [DefaultConfig EXCEPT !.skip_empty_rows = skip])
    /\ loaded = parser
    /\ COLUMN_COUNT \in 1..MaxCols
    /\ Quiet

Next ==
    \/ SliceCount
    \/ \E i \in 0..MaxCols : ValidateSliceIndex(i)
    \/ \E i \in 0..MaxCols : SliceHeaders(i)
    \/ \E i \in 0..MaxCols : ParseSlice(i)
    \/ \E i \in 0..MaxCols : ParseSliceIter(i)
    \/ ParseAllSlices
    \/ IterNext
    \/ IterDrop
    \/ Forget

Spec == Init /\ [][Next]_vars

\* SpecLoad: a file and a configuration, and the load.
InitLoad ==
    /\ pc = "new"
    /\ \/ source = [readable |-> FALSE, headers |-> <<>>, rows |-> <<>>]
       \/ \E h \in SeqsUpTo(FileCells, MaxCols) :
             \E rows \in SeqsUpTo(SeqsUpTo(FileCells, MaxCols), MaxFileRows) :
                 source = [readable |-> TRUE, headers |-> h, rows |-> rows]
    /\ \E trim \in BOOLEAN :
          parser = [NoParser EXCEPT !.config.trim_fields = trim]
    /\ loaded = parser
    /\ COLUMN_COUNT = 1
    /\ Quiet

NextLoad == FromFile

SpecLoad == InitLoad /\ [][NextLoad]_vars

---------------------------------------------------------------------------
\* Properties of the partitioner (SpecPart).

HeaderLength == Len(parser.headers)

\* C1: slice_count returns floor(H / W), the one n with n*W <= H < (n+1)*W,
\* and so 0 whenever H < W.
C1_SliceCountIsFloor ==
    op.name = "slice_count" =>
        /\ ret \in Nat
        /\ ret * COLUMN_COUNT <= HeaderLength
        /\ HeaderLength < (ret + 1) * COLUMN_COUNT
        /\ (HeaderLength < COLUMN_COUNT => ret = 0)

\* slice_count was called on a header whose width is no multiple of W
C1_Witness ==
    /\ op.name = "slice_count"
    /\ HeaderLength = 5
    /\ COLUMN_COUNT = 3
    /\ ret = 1

\* C2: validate_slice(i, W) returns exactly (i*W, i*W + W) for i < slice_count(W)
\* and fails with OutOfBounds, carrying the index, the range and the header
\* length, for i >= slice_count(W).
C2_ValidateSliceAgreesWithCount ==
    op.name = "validate_slice_index" =>
        LET i == op.slice_index
            W == COLUMN_COUNT
        IN  IF i < slice_count(parser, W)
            THEN ret = Ok(<<i * W, i * W + W>>)
            ELSE ret = OutOfBounds(i, i * W, i * W + W, HeaderLength)

\* H=5, W=3, i=1 failed reporting start=3, end=6, header_len=5
C2_Witness ==
    /\ op = [name |-> "validate_slice_index", slice_index |-> 1]
    /\ HeaderLength = 5
    /\ COLUMN_COUNT = 3
    /\ ret = OutOfBounds(1, 3, 6, 5)

\* C3: slice_headers(i, W) returns exactly the W header names at columns
\* [i*W, i*W + W) when i < slice_count(W) and None otherwise, so that it is
\* Some exactly where validate_slice succeeds.
C3_SliceHeadersIsHeaderRange ==
    op.name = "slice_headers" =>
        LET i == op.slice_index
            W == COLUMN_COUNT
        IN  /\ IF i < slice_count(parser, W)
               THEN ret = Some(SubSeq(parser.headers, i * W + 1, i * W + W))
               ELSE ret = None
            /\ (ret.tag = "Some") <=> (validate_slice_index(parser, W, i).tag = "Ok")

---------------------------------------------------------------------------
\* Properties of the slice parsers (Spec).

Rows == 0..(Len(parser.records) - 1)
Row(r) == parser.records[r + 1]
Skip == parser.config.skip_empty_rows
SliceStart == op.slice_index * COLUMN_COUNT
SliceEnd == SliceStart + COLUMN_COUNT

\* every cell of row r in [start_col, end_col) is absent or holds only whitespace
Blank(r, start_col, end_col) ==
    \A c \in start_col..(end_col - 1) :
        \/ c >= Len(Row(r))
        \/ \A j \in 1..Len(Row(r)[c + 1]) : Row(r)[c + 1][j] = " "

CalledRows == {calls[k].row : k \in 1..Len(calls)}
CheckedRows == {checks[k] : k \in 1..Len(checks)}

RECURSIVE Ascending(_)
Ascending(S) == IF S = {} THEN <<>> ELSE <<Min(S)>> \o Ascending(S \ {Min(S)})

\* the rows the filter lets through for the slice of the last call
Surviving == {r \in Rows : ~(Skip /\ Blank(r, SliceStart, SliceEnd))}
Failing == {r \in Surviving : from_record(Row(r), SliceStart, COLUMN_COUNT).tag # "Ok"}

\* the rows parse_slice got to: all of them, or those up to the row whose
\* decoding failed
Reached == IF ret.tag = "Ok" THEN Rows ELSE {r \in Rows : r <= calls[Len(calls)].row}

EagerDone == op.name = "parse_slice" /\ ret.tag # "OutOfBounds"

\* C4: with skip_empty_rows=true a row is skipped (not passed to the decoder)
\* if and only if all its cells in range are absent or blank; with
\* skip_empty_rows=false the decoder is invoked on every row.
C4_Original_EveryRowFilteredOrDecoded ==
    EagerDone =>
        \A r \in Rows :
            IF Skip
            THEN (r \notin CalledRows) <=> Blank(r, SliceStart, SliceEnd)
            ELSE r \in CalledRows

\* C4 (amended): the same of every row parse_slice reaches, which is every row,
\* or, when the decoder fails, the rows up to and including the first one it
\* fails on: with skip_empty_rows=true such a row is skipped by the filter iff
\* it is blank in range and is decoded otherwise; with skip_empty_rows=false
\* the filter is never run and every such row is decoded.
C4_ReachedRowFilteredOrDecoded ==
    EagerDone =>
        \A r \in Reached :
            IF Skip
            THEN /\ r \in CheckedRows
                 /\ (r \notin CalledRows) <=> Blank(r, SliceStart, SliceEnd)
            ELSE /\ checks = <<>>
                 /\ r \in CalledRows

\* with the filter on, a blank row was skipped and a non-blank row decoded;
\* with it off, a blank row was decoded
C4_Witness ==
    /\ EagerDone
    /\ \E r \in Reached : Blank(r, SliceStart, SliceEnd) /\ r \notin CalledRows
    /\ \E r \in Reached : ~Blank(r, SliceStart, SliceEnd) /\ r \in CalledRows

\* C5: parse_slice on a valid slice returns the decoded surviving rows in row
\* order with one decoder call per surviving row; if the decoder fails it
\* returns the first failing row's DecodeError alone, having called the
\* decoder once on each surviving row up to that one and on none after it.
C5_EagerCollectsOrStopsAtFirstError ==
    EagerDone =>
        LET upto == IF Failing = {} THEN Surviving
                    ELSE {r \in Surviving : r <= Min(Failing)}
            order == Ascending(upto)
        IN  /\ calls = [k \in 1..Len(order) |-> Call(order[k], SliceStart)]
            /\ IF Failing = {}
               THEN ret = Ok([k \in 1..Len(order) |->
                                from_record(Row(order[k]), SliceStart, COLUMN_COUNT).val])
               ELSE ret = from_record(Row(Min(Failing)), SliceStart, COLUMN_COUNT)

\* the decoder failed on a row that a surviving row follows
C5_Witness ==
    /\ EagerDone
    /\ ret.tag = "DecodeError"
    /\ \E r \in Surviving : r > Min(Failing)

\* what parse_slice returns for the slice of the last call
Eager == parse_slice(parser, COLUMN_COUNT, op.slice_index).ret

Consumed == pc = "iter" /\ iter.exhausted

\* C6: the items of a fully consumed parse_slice_iter(i) are, in order, the
\* records parse_slice(i) returns; where parse_slice(i) fails on a row, the
\* lazy sequence carries that same error as its first failed item; and the
\* two fail alike with OutOfBounds when i is out of range.
C6_LazyEqualsEager ==
    op.name = "parse_slice_iter" =>
        /\ (ret.tag = "OutOfBounds") <=> (Eager.tag = "OutOfBounds")
        /\ ret.tag = "OutOfBounds" => ret = Eager /\ pc # "iter"
        /\ Consumed /\ Eager.tag = "Ok" =>
               yielded = [k \in 1..Len(Eager.val) |-> Ok(Eager.val[k])]
        /\ Consumed /\ Eager.tag = "DecodeError" =>
               \E k \in 1..Len(yielded) :
                   /\ yielded[k] = Eager
                   /\ \A j \in 1..(k - 1) : yielded[j].tag = "Ok"

\* an iterator was consumed to the end over rows of which the filter dropped some
C6_Witness ==
    /\ op.name = "parse_slice_iter"
    /\ Consumed
    /\ Eager.tag = "Ok"
    /\ yielded # <<>>
    /\ Len(yielded) < Len(parser.records)

\* the slices parse_slice fails on
FailingSlices ==
    {i \in 0..(slice_count(parser, COLUMN_COUNT) - 1) :
        parse_slice(parser, COLUMN_COUNT, i).ret.tag # "Ok"}

RECURSIVE Concat(_)
Concat(ss) == IF ss = <<>> THEN <<>> ELSE Head(ss) \o Concat(Tail(ss))

\* C7: parse_all_slices returns slice_count elements, the one at position i
\* being parse_slice(i)'s, made by parsing the slices in increasing order; if
\* some slice fails it returns the failure of the lowest failing slice and
\* has parsed no slice above it; it never fails with OutOfBounds.
C7_BulkIsEagerPerSlice ==
    op.name = "parse_all_slices" =>
        LET n == slice_count(parser, COLUMN_COUNT)
            last == IF FailingSlices = {} THEN n - 1 ELSE Min(FailingSlices)
        IN  /\ IF FailingSlices = {}
               THEN ret = Ok([k \in 1..n |->
                                parse_slice(parser, COLUMN_COUNT, k - 1).ret.val])
               ELSE ret = parse_slice(parser, COLUMN_COUNT, Min(FailingSlices)).ret
            /\ calls = Concat([k \in 1..(last + 1) |->
                                parse_slice(parser, COLUMN_COUNT, k - 1).calls])
            /\ \A k \in 1..Len(calls) : calls[k].start_col <= last * COLUMN_COUNT
            /\ ret.tag # "OutOfBounds"

\* a slice failed and a slice above it exists
C7_Witness ==
    /\ op.name = "parse_all_slices"
    /\ ret.tag = "DecodeError"
    /\ Min(FailingSlices) + 1 < slice_count(parser, COLUMN_COUNT)

\* C8: while the iterator is live the decoder has run once per element pulled
\* and only on the rows that produced them; no row at or after the
\* iterator's position has been filtered or decoded; after k pulls the
\* position is just past the row that produced the k-th element; an iterator
\* not yet pulled has invoked neither the filter nor the decoder.
C8_LazyDecodesOnlyWhatIsPulled ==
    pc = "iter" =>
        /\ Len(calls) = Len(yielded)
        /\ \A k \in 1..Len(calls) :
              /\ calls[k].row < iter.pos
              /\ yielded[k] = from_record(Row(calls[k].row), iter.start_col, COLUMN_COUNT)
        /\ \A k \in 1..Len(checks) : checks[k] < iter.pos
        /\ ~iter.exhausted /\ yielded # <<>> => iter.pos = calls[Len(calls)].row + 1
        /\ ~iter.exhausted /\ yielded = <<>> =>
              iter.pos = 0 /\ calls = <<>> /\ checks = <<>>

\* one element was pulled and a row is left that nothing has touched
C8_Witness ==
    /\ pc = "iter"
    /\ Len(yielded) = 1
    /\ yielded[1].tag = "Ok"
    /\ iter.pos < Len(parser.records)
    /\ ~(Len(parser.records) - 1 \in CalledRows \cup CheckedRows)

\* C9: no slice operation, successful or failed, changes the parser's header,
\* rows or configuration; parse_slice returns what it returns on the parser
\* as constructed, for every slice, whatever was called before.
C9_StoreIsNeverMutated ==
    /\ parser = loaded
    /\ source.headers = parser.headers /\ source.rows = parser.records
    /\ op.name = "parse_slice" =>
          ret = parse_slice(loaded, COLUMN_COUNT, op.slice_index).ret

\* a lazy parse surfaced a decoding failure and went on
C9_Witness ==
    /\ pc = "iter"
    /\ \E k \in 1..Len(yielded) : yielded[k].tag = "DecodeError" /\ k < Len(yielded)

---------------------------------------------------------------------------
\* Properties of the load (SpecLoad).

\* C10: with trim_fields=true every header and row cell is stored with its
\* surrounding whitespace stripped; with trim_fields=false every cell is
\* stored exactly as read.
C10_TrimFollowsConfig ==
    pc = "ready" /\ op.name = "from_file_with_config" =>
        IF parser.config.trim_fields
        THEN /\ parser.headers = TrimRecord(source.headers)
             /\ parser.records = [r \in 1..Len(source.rows) |-> TrimRecord(source.rows[r])]
        ELSE /\ parser.headers = source.headers
             /\ parser.records = source.rows

---------------------------------------------------------------------------
\* SpecWord: parse_slice::<Word> over rows that may be shorter than the header.

InitWord ==
    /\ pc = "ready"
    /\ \E n \in 0..MaxWordCols :
          \E rows \in SeqsUpTo(SeqsUpTo(DataCells, n), MaxRows) :
              source = [readable |-> TRUE, headers |-> Header(n), rows |-> rows]
    /\ \E skip \in BOOLEAN :
          parser = from_records(source.headers, source.rows,
                                [DefaultConfig EXCEPT !.skip_empty_rows = skip])
    /\ loaded = parser
    /\ COLUMN_COUNT = WordColumnCount
    /\ Quiet

NextWord ==
    \/ \E i \in 0..1 : ParseSlice(i)
    \/ Forget

SpecWord == InitWord /\ [][NextWord]_vars

\* row r ends before the slice of the last call does
Short(r) == Len(Row(r)) < SliceEnd

\* the first field of the slice that row r lacks
FirstMissing(r) == IF Len(Row(r)) > SliceStart THEN Len(Row(r)) - SliceStart ELSE 0

\* C11: for a row shorter than the slice's end, decoded as Word (W=3): the
\* filter counts the absent cells as empty and never fails, so with
\* skip_empty_rows=true a short row whose present cells in range are blank is
\* skipped silently; a short row that parse_slice reaches is passed to the
\* decoder exactly when a present cell in range is non-blank or
\* skip_empty_rows=false, and whenever a short row is passed to the decoder
\* parse_slice fails with the DecodeError of the first field it lacks.
C11_ShortRowSkippedOrDecodeError ==
    EagerDone =>
        /\ ret.tag \in {"Ok", "DecodeError"}
        /\ \A r \in Rows :
              Short(r) =>
                  /\ Skip /\ Blank(r, SliceStart, SliceEnd) => r \notin CalledRows
                  /\ r \in Reached =>
                        (r \in CalledRows <=> (~Skip \/ ~Blank(r, SliceStart, SliceEnd)))
                  /\ r \in CalledRows => ret = DecodeError(FirstMissing(r))

\* with the filter on, a short blank row was skipped without an error and a
\* later short row with a non-blank cell made parse_slice fail
C11_Witness ==
    /\ EagerDone
    /\ COLUMN_COUNT = WordColumnCount
    /\ Skip
    /\ \E r \in CheckedRows : Short(r) /\ r \notin CalledRows
    /\ \E r \in CalledRows : Short(r) /\ ret = DecodeError(FirstMissing(r)) /\ ret.field > 0

---------------------------------------------------------------------------
\* vocab_importer.rs: notes.

\* Word, as Word::from_record fills it from the three cells of a slice
Word(japanese, english, kanji) ==
    [japanese |-> japanese, english |-> english, kanji |-> kanji]

\* JapaneseVocabImporter::new: model_name is "Basic"
ModelName == "Basic"

\* format!("{}::{}", deck_name, topic)
SubdeckName(deck_name, topic) == deck_name \o <<":", ":">> \o topic

\* a mutant of word_to_note: the kanji is tested with is_empty() and not trimmed
word_to_note_notrim(deck_name, word, topic) ==
    LET full_deck_name == IF topic = <<>> THEN deck_name ELSE SubdeckName(deck_name, topic)
    IN  [deck_name |-> full_deck_name,
         model_name |-> ModelName,
         fields |-> [front |-> IF word.kanji = <<>> THEN word.japanese ELSE word.kanji,
                     back |-> IF word.kanji = <<>>
                              THEN word.english
                              ELSE word.japanese \o <<" ", "|", " ">> \o word.english],
         options |-> [allow_duplicate |-> TRUE, duplicate_scope |-> "deck",
                      duplicate_scope_options |->
                          [deck_name |-> full_deck_name, check_children |-> FALSE,
                           check_all_models |-> FALSE]],
         tags |-> (IF topic = <<>> THEN <<>> ELSE <<topic>>)]

\* JapaneseVocabImporter::word_to_note.  tags lists the topic when it is not
\* empty; the two literal tags "japanese" and "vocabularly" that follow it
\* are the same in every note and are left out.
word_to_note(deck_name, word, topic) ==
    LET full_deck_name == IF topic = <<>> THEN deck_name ELSE SubdeckName(deck_name, topic)
        front == IF Trim(word.kanji) = <<>> THEN word.japanese ELSE word.kanji
        back == IF Trim(word.kanji) = <<>>
                THEN word.english
                ELSE word.japanese \o <<" ", "|", " ">> \o word.english
    IN  [deck_name |-> full_deck_name,
         model_name |-> ModelName,
         fields |-> [front |-> front, back |-> back],
         options |-> [allow_duplicate |-> TRUE, duplicate_scope |-> "deck",
                      duplicate_scope_options |->
                          [deck_name |-> full_deck_name, check_children |-> FALSE,
                           check_all_models |-> FALSE]],
         tags |-> (IF topic = <<>> THEN <<>> ELSE <<topic>>)]

\* the importer's main deck
DeckName == <<"d">>

WordToNote ==
    /\ op = NoOp
    /\ op' = [name |-> "word_to_note", slice_index |-> 0]
    /\ ret' = word_to_note(source.deck, source.word, source.topic)
    /\ UNCHANGED <<pc, source, parser, COLUMN_COUNT, loaded, calls, checks, iter, yielded>>
    /\ UNCHANGED appVars

\* SpecNote: a word, a topic, and the note made of them.
NoteCells == {<<>>, <<" ">>, <<"a">>, <<"b">>}
NoteTopics == {<<>>, <<" ">>, <<"t">>}

InitNote ==
    /\ pc = "new"
    /\ \E j \in NoteCells, e \in NoteCells, k \in NoteCells, t \in NoteTopics :
          source = [deck |-> DeckName, word |-> Word(j, e, k), topic |-> t]
    /\ parser = NoParser
    /\ loaded = parser
    /\ COLUMN_COUNT = WordColumnCount
    /\ Quiet

NextNote == WordToNote

SpecNote == InitNote /\ [][NextNote]_vars

AllWhitespace(s) == \A j \in 1..Len(s) : s[j] = " "

\* C12: word_to_note's front is the kanji when the kanji is non-blank and the
\* japanese reading otherwise; its back is the japanese reading joined to the
\* english (japanese, " | ", english) when the front is the kanji and the
\* english alone otherwise; its deck is <deck>::<topic> when the topic is
\* non-empty and the main deck when it is empty.
C12_NoteFields ==
    op.name = "word_to_note" =>
        LET w == source.word
        IN  /\ ret.fields.front = IF AllWhitespace(w.kanji) THEN w.japanese ELSE w.kanji
            /\ ret.fields.back = IF AllWhitespace(w.kanji)
                                 THEN w.english
                                 ELSE w.japanese \o <<" ", "|", " ">> \o w.english
            /\ ret.deck_name = IF source.topic = <<>>
                               THEN source.deck
                               ELSE source.deck \o <<":", ":">> \o source.topic

\* a word whose kanji is whitespace only, in a named topic
C12_Witness ==
    /\ op.name = "word_to_note"
    /\ source.word.kanji = <<" ">>
    /\ source.word.japanese = <<"a">>
    /\ source.word.english = <<"b">>
    /\ source.topic = <<"t">>
    /\ ret.fields = [front |-> <<"a">>, back |-> <<"b">>]
    /\ ret.deck_name = <<"d", ":", ":", "t">>

---------------------------------------------------------------------------
\* main.rs: parse_topics_from_csv.

MaxTopicSlices == 2
MaxTopicRows == 2

Topic(name, words) == [name |-> name, words |-> words]

\* Vec<Word> of a decoded slice: Word::from_record reads japanese, english,
\* kanji from the slice's three cells in that order
Words(decoded) ==
    [k \in 1..Len(decoded) |-> Word(decoded[k][1], decoded[k][2], decoded[k][3])]

\* the filter invocations of one parse_slice call, with the slice's start column
CheckedAt(rows, start_col) == [k \in 1..Len(rows) |-> Call(rows[k], start_col)]

\* a mutant of the closure: the rows are parsed before the name is looked at
RECURSIVE topics_loop_rows_first(_, _, _)
topics_loop_rows_first(self, slice_idx, acc) ==
    IF slice_idx >= slice_count(self, WordColumnCount)
    THEN [ret |-> Ok(acc.results), calls |-> acc.calls, checks |-> acc.checks]
    ELSE LET topic_name == Get(self.headers, slice_idx * WordColumnCount)
             r == parse_slice(self, WordColumnCount, slice_idx)
             called == acc.calls \o r.calls
             checked == acc.checks \o CheckedAt(r.checks, slice_idx * WordColumnCount)
         IN  IF \/ topic_name.tag = "None"
                \/ Trim(topic_name.val) = <<>>
                \/ r.ret.tag # "Ok"
                \/ r.ret.val = <<>>
             THEN topics_loop_rows_first(self, slice_idx + 1,
                      [acc EXCEPT !.calls = called, !.checks = checked])
             ELSE topics_loop_rows_first(self, slice_idx + 1,
                      [results |-> Append(acc.results,
                                          Topic(topic_name.val, Words(r.ret.val))),
                       calls |-> called, checks |-> checked])

\* (0..parser.slice_count::<Word>()).filter_map(|slice_idx| ...), from
\* slice_idx on: the closure returns None (the slice is left out) when the
\* header is missing or blank, before parse_slice is called, and when
\* parse_slice fails or yields no word.
RECURSIVE topics_loop(_, _, _)
topics_loop(self, slice_idx, acc) ==
    IF slice_idx >= slice_count(self, WordColumnCount)
    THEN [ret |-> Ok(acc.results), calls |-> acc.calls, checks |-> acc.checks]
    ELSE LET topic_name == Get(self.headers, slice_idx * WordColumnCount)
         IN  IF topic_name.tag = "None" \/ Trim(topic_name.val) = <<>>
             THEN topics_loop(self, slice_idx + 1, acc)
             ELSE LET r == parse_slice(self, WordColumnCount, slice_idx)
                      called == acc.calls \o r.calls
                      checked == acc.checks
                                 \o CheckedAt(r.checks, slice_idx * WordColumnCount)
                  IN  IF r.ret.tag # "Ok" \/ r.ret.val = <<>>
                      THEN topics_loop(self, slice_idx + 1,
                               [acc EXCEPT !.calls = called, !.checks = checked])
                      ELSE topics_loop(self, slice_idx + 1,
                               [results |-> Append(acc.results,
                                                   Topic(topic_name.val, Words(r.ret.val))),
                                calls |-> called, checks |-> checked])

\* parse_topics_from_csv: from_file(file_path)? and then the filter_map
parse_topics_from_csv(file) ==
    LET p == from_file_with_config(file, DefaultConfig)
    IN  IF p.tag # "Ok"
        THEN Pure(p)
        ELSE topics_loop(p.val, 0, NoTrace)

ParseTopics ==
    /\ pc = "new"
    /\ op = NoOp
    /\ LET r == parse_topics_from_csv(source)
       IN  /\ ret' = r.ret
           /\ calls' = r.calls
           /\ checks' = r.checks
    /\ op' = [name |-> "parse_topics_from_csv", slice_index |-> 0]
    /\ UNCHANGED <<pc, source, parser, COLUMN_COUNT, loaded, iter, yielded>>
    /\ UNCHANGED appVars

\* SpecTopics: a vocabulary file of up to MaxTopicSlices topics, and the
\* topics read from it.  A topic's first header cell is its name.
TopicNameCells == {<<" ">>, <<"t">>}
FillerCell == <<"h">>
WordCells == {<<<<" ">>, <<>>, <<" ">>>>,
              <<<<"a">>, <<"b">>, <<"c">>>>,
              <<<<"a">>, <<" ", "b">>, <<>>>>}

NoFile == [readable |-> FALSE, headers |-> <<>>, rows |-> <<>>]

VocabularyFile(names, rows) ==
    [readable |-> TRUE,
     headers |-> Concat([i \in 1..Len(names) |-> <<names[i], FillerCell, FillerCell>>]),
     rows |-> [r \in 1..Len(rows) |-> Concat(rows[r])]]

InitTopics ==
    /\ pc = "new"
    /\ \/ source = NoFile
       \/ \E n \in 0..MaxTopicSlices :
             \E names \in [1..n -> TopicNameCells],
                rows \in SeqsUpTo([1..n -> WordCells], MaxTopicRows) :
                 source = VocabularyFile(names, rows)
    /\ parser = NoParser
    /\ loaded = parser
    /\ COLUMN_COUNT = WordColumnCount
    /\ Quiet

NextTopics == ParseTopics

SpecTopics == InitTopics /\ [][NextTopics]_vars

\* the file's slices, and what the file holds for them
FileSlices == 0..((Len(source.headers) \div WordColumnCount) - 1)
FileName(i) == source.headers[i * WordColumnCount + 1]
FileRows == 0..(Len(source.rows) - 1)
FileCell(r, i, k) == source.rows[r + 1][i * WordColumnCount + k]
NamedSlices == {i \in FileSlices : ~AllWhitespace(FileName(i))}
WordRows(i) == {r \in FileRows : \E k \in 1..WordColumnCount : ~AllWhitespace(FileCell(r, i, k))}
FileWord(r, i) == Word(Trim(FileCell(r, i, 1)), Trim(FileCell(r, i, 2)), Trim(FileCell(r, i, 3)))
FileTopic(i) ==
    LET rs == Ascending(WordRows(i))
    IN  Topic(Trim(FileName(i)), [k \in 1..Len(rs) |-> FileWord(rs[k], i)])
KeptSlices == Ascending({i \in NamedSlices : WordRows(i) # {}})

NonDecreasing(log) ==
    \A j, k \in 1..Len(log) : j < k => log[j].start_col <= log[k].start_col

TopicsDone == op.name = "parse_topics_from_csv" /\ ret.tag = "Ok"

\* C13: parse_topics_from_csv visits the slices in increasing index; a slice
\* whose header cell i*W is blank after trimming has none of its rows filtered
\* or decoded, whatever they contain; every Topic produced has a non-blank
\* name and at least one word, and the topics are those of the named slices
\* with a non-blank row, in slice order.
C13_BlankNameDroppedBeforeRows ==
    TopicsDone =>
        /\ \A k \in 1..Len(checks) : (checks[k].start_col \div WordColumnCount) \in NamedSlices
        /\ \A k \in 1..Len(calls) : (calls[k].start_col \div WordColumnCount) \in NamedSlices
        /\ NonDecreasing(checks)
        /\ NonDecreasing(calls)
        /\ \A t \in 1..Len(ret.val) :
              ~AllWhitespace(ret.val[t].name) /\ Len(ret.val[t].words) >= 1
        /\ ret.val = [t \in 1..Len(KeptSlices) |-> FileTopic(KeptSlices[t])]

\* two slices with words in their rows: the first has a blank name, the second
\* is named and becomes the only topic
C13_Witness ==
    /\ TopicsDone
    /\ FileSlices = {0, 1}
    /\ NamedSlices = {1}
    /\ WordRows(0) # {}
    /\ Len(ret.val) = 1
    /\ checks # <<>>
    /\ \A k \in 1..Len(checks) : checks[k].start_col = WordColumnCount

---------------------------------------------------------------------------
\* anki.rs: the AnkiConnect client.  A message is a sequence of words, and
\* str::contains looks for a word in it.

MaxRunTopics == 2
MaxRunRows == 2

Err(msg) == [tag |-> "Err", msg |-> msg]
Contains(msg, word) == \E k \in 1..Len(msg) : msg[k] = word

\* what a request meets: no connection, a non-success status, or an
\* AnkiResponse { result, error }
Transport == [kind |-> "transport"]
HttpError == [kind |-> "http"]
Response(result, error) == [kind |-> "response", result |-> result, error |-> error]

DuplicateMessage == <<"cannot", "create", "note", "because", "it", "is", "a", "duplicate">>
OtherMessage == <<"deck", "was", "not", "found">>

Accepted == Response(Some(1), None)
Refused == Response(None, Some(OtherMessage))
RefusedAsDuplicate == Response(None, Some(DuplicateMessage))

\* the replies drawn for a connection check or a deck, and for a note; a
\* non-success status leaves send_request by the same Err as a lost connection
DeckReplies == {Transport, HttpError, Accepted, Refused}
AddNoteReplies == {Transport, Accepted, Refused, RefusedAsDuplicate}

\* send_request: `.send()?`, then the status test, then the decoded body
send_request(reply) ==
    IF reply.kind = "transport"
    THEN Err(<<"error", "sending", "request">>)
    ELSE IF reply.kind = "http"
    THEN Err(<<"HTTP", "error:", "500">>)
    ELSE Ok(reply)

unwrap_or(option, default) == IF option.tag = "Some" THEN option.val ELSE default

check_connection(reply) ==
    LET response == send_request(reply)
    IN  IF response.tag # "Ok"
        THEN response
        ELSE IF response.val.error.tag = "Some"
        THEN Err(<<"AnkiConnect", "error:">> \o response.val.error.val)
        ELSE Ok(<<>>)

create_deck(reply) ==
    LET response == send_request(reply)
    IN  IF response.tag # "Ok"
        THEN response
        ELSE IF response.val.error.tag = "Some"
        THEN Err(<<"Failed", "to", "create", "deck:">> \o response.val.error.val)
        ELSE Ok(unwrap_or(response.val.result, 0))

add_note(reply) ==
    LET response == send_request(reply)
    IN  IF response.tag # "Ok"
        THEN response
        ELSE IF response.val.error.tag = "Some"
        THEN IF Contains(response.val.error.val, "duplicate")
             THEN Err(<<"Duplicate", "note">>)
             ELSE Err(<<"Failed", "to", "add", "note:">> \o response.val.error.val)
        ELSE Ok(unwrap_or(response.val.result, 0))

Request(action, params, reply) == [action |-> action, params |-> params, reply |-> reply]

---------------------------------------------------------------------------
\* vocab_importer.rs: import results.

ImportResult(topic_name) ==
    [topic_name |-> topic_name, added |-> 0, duplicates |-> 0, errors |-> 0]

total(result) == result.added + result.duplicates + result.errors

\* a mutant of the match: every Err is an error
tally_errors_only(result, add_result) ==
    IF add_result.tag = "Ok"
    THEN [result EXCEPT !.added = @ + 1]
    ELSE [result EXCEPT !.errors = @ + 1]

\* import_topic: the match on one add_result
tally(result, add_result) ==
    IF add_result.tag = "Ok"
    THEN [result EXCEPT !.added = @ + 1]
    ELSE IF Contains(add_result.msg, "Duplicate")
    THEN [result EXCEPT !.duplicates = @ + 1]
    ELSE [result EXCEPT !.errors = @ + 1]

\* import_topic: `for (_idx, add_result) in add_results.iter().enumerate()`
RECURSIVE tally_loop(_, _, _)
tally_loop(added, k, result) ==
    IF k > Len(added)
    THEN result
    ELSE tally_loop(added, k + 1, tally(result, added[k]))

import_result(topic_name, added) == tally_loop(added, 1, ImportResult(topic_name))

---------------------------------------------------------------------------
\* main.rs: run(), one action per step sent to the file system or to
\* AnkiConnect.  ret is what run returns once it has returned.

parserVars == <<pc, source, parser, COLUMN_COUNT, loaded, op, calls, checks, iter, yielded>>

\* where run stands once `created` subdecks exist, and once `imported` topics
\* have been imported
AfterTopics(imported) == IF imported < Len(topics) THEN "import" ELSE "done"
AfterDecks(created) == IF created < Len(topics) THEN "subdecks" ELSE AfterTopics(0)

Finished(next) == IF next = "done" THEN Ok(<<>>) ELSE NoValue

\* get_inputs()? and handle_parsing(&path)?
RunParse ==
    /\ step = "start"
    /\ IF ~source.args
       THEN /\ step' = "failed"
            /\ ret' = Err(<<"Error:", "Missing", "argument">>)
            /\ UNCHANGED topics
       ELSE LET r == parse_topics_from_csv(source)
            IN  IF r.ret.tag # "Ok"
                THEN /\ step' = "failed"
                     /\ ret' = r.ret
                     /\ UNCHANGED topics
                ELSE /\ step' = "connect"
                     /\ topics' = r.ret.val
                     /\ UNCHANGED ret
    /\ UNCHANGED <<requests, results, add_results>>
    /\ UNCHANGED parserVars

\* a mutant of connect_to_anki: the error of check_connection is dropped
RunConnectUnchecked ==
    /\ step = "connect"
    /\ \E reply \in DeckReplies :
          requests' = Append(requests, Request("requestPermission", <<>>, reply))
    /\ step' = "main_deck"
    /\ UNCHANGED <<ret, topics, results, add_results>>
    /\ UNCHANGED parserVars

\* connect_to_anki(&importer)?
RunConnect ==
    /\ step = "connect"
    /\ \E reply \in DeckReplies :
          LET r == check_connection(reply)
          IN  /\ requests' = Append(requests, Request("requestPermission", <<>>, reply))
              /\ IF r.tag # "Ok"
                 THEN /\ step' = "failed"
                      /\ ret' = Err(<<"Cannot", "connect", "to", "to", "Anki.">> \o r.msg)
                 ELSE /\ step' = "main_deck"
                      /\ UNCHANGED ret
    /\ UNCHANGED <<topics, results, add_results>>
    /\ UNCHANGED parserVars

\* initialise_with_topics: self.client.create_deck(&self.deck_name)?
RunCreateMainDeck ==
    /\ step = "main_deck"
    /\ \E reply \in DeckReplies :
          LET r == create_deck(reply)
          IN  /\ requests' = Append(requests, Request("createDeck", source.deck, reply))
              /\ IF r.tag # "Ok"
                 THEN /\ step' = "failed"
                      /\ ret' = r
                 ELSE /\ step' = AfterDecks(0)
                      /\ ret' = Finished(AfterDecks(0))
    /\ UNCHANGED <<topics, results, add_results>>
    /\ UNCHANGED parserVars

\* the subdecks created so far: the createDeck requests but the main deck's
Subdecks == Cardinality({k \in 1..Len(requests) : requests[k].action = "createDeck"}) - 1

\* initialise_with_topics: the next turn of `for topic in topics`
RunCreateSubdeck ==
    /\ step = "subdecks"
    /\ \E reply \in DeckReplies :
          LET topic == topics[Subdecks + 1]
              subdeck_name == SubdeckName(source.deck, topic.name)
              r == create_deck(reply)
          IN  /\ requests' = Append(requests, Request("createDeck", subdeck_name, reply))
              /\ IF r.tag # "Ok"
                 THEN /\ step' = "failed"
                      /\ ret' = r
                 ELSE /\ step' = AfterDecks(Subdecks + 1)
                      /\ ret' = Finished(AfterDecks(Subdecks + 1))
    /\ UNCHANGED <<topics, results, add_results>>
    /\ UNCHANGED parserVars

\* a mutant of add_notes: the loop ends at the first note that fails
RunAddNoteUntilFailure ==
    /\ step \in {"import", "add_notes"}
    /\ \E reply \in AddNoteReplies :
          LET topic == topics[Len(results) + 1]
              sofar == IF step = "import" THEN <<>> ELSE add_results
              note == word_to_note(source.deck, topic.words[Len(sofar) + 1], topic.name)
              r == add_note(reply)
              out == Append(sofar, r)
          IN  /\ requests' = Append(requests, Request("addNote", note, reply))
              /\ add_results' = out
              /\ IF Len(out) < Len(topic.words) /\ r.tag = "Ok"
                 THEN /\ step' = "add_notes"
                      /\ UNCHANGED <<results, ret>>
                 ELSE /\ results' = Append(results, import_result(topic.name, out))
                      /\ step' = AfterTopics(Len(results) + 1)
                      /\ ret' = Finished(AfterTopics(Len(results) + 1))
    /\ UNCHANGED topics
    /\ UNCHANGED parserVars

\* import_all_topics -> import_topic -> add_notes: the next turn of
\* `for note in notes`, which pushes add_note's Ok(id) or Err(e.to_string()).
\* A turn from "import" is the first of a topic and starts a new Vec; the
\* last turn of a topic returns the Vec to import_topic, which tallies it, and
\* import_all_topics pushes the ImportResult.  Every topic
\* parse_topics_from_csv returns has a word.
RunAddNote ==
    /\ step \in {"import", "add_notes"}
    /\ \E reply \in AddNoteReplies :
          LET topic == topics[Len(results) + 1]
              sofar == IF step = "import" THEN <<>> ELSE add_results
              note == word_to_note(source.deck, topic.words[Len(sofar) + 1], topic.name)
              out == Append(sofar, add_note(reply))
          IN  /\ requests' = Append(requests, Request("addNote", note, reply))
              /\ add_results' = out
              /\ IF Len(out) < Len(topic.words)
                 THEN /\ step' = "add_notes"
                      /\ UNCHANGED <<results, ret>>
                 ELSE /\ results' = Append(results, import_result(topic.name, out))
                      /\ step' = AfterTopics(Len(results) + 1)
                      /\ ret' = Finished(AfterTopics(Len(results) + 1))
    /\ UNCHANGED topics
    /\ UNCHANGED parserVars

\* SpecRun: the program's arguments and its file, and a run.  Topic i's name
\* and the words of its rows differ from every other topic's.
RunTopicName(i) == [j \in 1..i |-> "t"]
RunWordCells(r, i) == <<[j \in 1..r |-> "a"], <<"b">>, [j \in 1..(i - 1) |-> "c"]>>

RunFile(n, m) ==
    VocabularyFile([i \in 1..n |-> RunTopicName(i)],
                   [r \in 1..m |-> [i \in 1..n |-> RunWordCells(r, i)]])

RunInput(args, file) ==
    [args |-> args, deck |-> DeckName,
     readable |-> file.readable, headers |-> file.headers, rows |-> file.rows]

InitRun ==
    /\ pc = "new"
    /\ \/ source = RunInput(FALSE, NoFile)
       \/ source = RunInput(TRUE, NoFile)
       \/ \E n \in 0..MaxRunTopics :
             \E m \in 0..(IF n = 0 THEN 0 ELSE MaxRunRows) :
                 source = RunInput(TRUE, RunFile(n, m))
    /\ parser = NoParser
    /\ loaded = parser
    /\ COLUMN_COUNT = WordColumnCount
    /\ Quiet

NextRun ==
    \/ RunParse
    \/ RunConnect
    \/ RunCreateMainDeck
    \/ RunCreateSubdeck
    \/ RunAddNote

SpecRun == InitRun /\ [][NextRun]_vars

\* the requests of a kind, and the addNote requests made for topic t
Sent(action) == {k \in 1..Len(requests) : requests[k].action = action}
TopicRequests(t) ==
    {k \in Sent("addNote") :
        requests[k].params.deck_name = SubdeckName(source.deck, topics[t].name)}

\* the endpoint took the request, and the endpoint refused the note as a duplicate
Succeeded(reply) == reply.kind = "response" /\ reply.error.tag = "None"
RejectedAsDuplicate(reply) ==
    /\ reply.kind = "response"
    /\ reply.error.tag = "Some"
    /\ Contains(reply.error.val, "duplicate")

\* C14: every ImportResult import_topic returned counts each of its topic's
\* words once, added + duplicates + errors (total()) being the topic's word
\* count; the notes the endpoint took are under added, the notes it rejected
\* as duplicates are under duplicates, and every other failure is under errors.
C14_EveryNoteCountedOnce ==
    \A t \in 1..Len(results) :
        LET sent == TopicRequests(t)
            taken == {k \in sent : Succeeded(requests[k].reply)}
            dups == {k \in sent : RejectedAsDuplicate(requests[k].reply)}
        IN  /\ total(results[t]) = Len(topics[t].words)
            /\ results[t].added = Cardinality(taken)
            /\ results[t].duplicates = Cardinality(dups)
            /\ results[t].errors = Cardinality(sent \ (taken \cup dups))

\* a topic of two words: one rejected as a duplicate, one lost to the connection
\* (every word of a run's file differs from the others, and so do the notes)
C14_Witness ==
    /\ results # <<>>
    /\ results[1].added = 0
    /\ results[1].duplicates = 1
    /\ results[1].errors = 1
    /\ \E k \in TopicRequests(1) : requests[k].reply = Transport

\* the notes of all topics, topic by topic, each topic's in word order
AllNotes ==
    Concat([t \in 1..Len(topics) |->
              [w \in 1..Len(topics[t].words) |->
                  word_to_note(source.deck, topics[t].words[w], topics[t].name)]])

\* the request run sends in position k, notes being the notes of all topics
Expected(k, notes) ==
    IF k = 1 THEN [action |-> "requestPermission", params |-> <<>>]
    ELSE IF k = 2 THEN [action |-> "createDeck", params |-> source.deck]
    ELSE IF k <= Len(topics) + 2
    THEN [action |-> "createDeck", params |-> SubdeckName(source.deck, topics[k - 2].name)]
    ELSE [action |-> "addNote", params |-> notes[k - Len(topics) - 2]]

\* get_inputs or from_file fails: an argument is missing, the file cannot be
\* opened, or a row has not the header's length
ParseFails ==
    \/ ~source.args
    \/ ~source.readable
    \/ \E r \in 1..Len(source.rows) : Len(source.rows[r]) # Len(source.headers)

\* C15: run sends nothing before the file is parsed and nothing if parsing
\* fails; its requests are, in order, the connection check, the main deck,
\* one subdeck per topic in topic order, then the notes topic by topic; a
\* request follows a connection check or a deck creation only if that one
\* succeeded, so every addNote has all of them succeeded before it; and a
\* run that failed has sent no addNote.
C15_RunOrder ==
    /\ requests # <<>> => step # "start" /\ ~ParseFails
    /\ LET notes == AllNotes
       IN  \A k \in 1..Len(requests) :
               /\ requests[k].action = Expected(k, notes).action
               /\ requests[k].params = Expected(k, notes).params
               /\ k < Len(requests) /\ k <= Len(topics) + 2 => Succeeded(requests[k].reply)
    /\ Sent("addNote") # {} =>
          /\ Len(topics) >= 1
          /\ \A k \in 1..(Len(topics) + 2) : Succeeded(requests[k].reply)
    /\ step = "failed" =>
          /\ Sent("addNote") = {}
          /\ requests # <<>> => ~Succeeded(requests[Len(requests)].reply)
    /\ step = "done" => Cardinality(Sent("addNote")) = Len(AllNotes)

\* a run over two topics that got to the end
C15_Witness ==
    /\ step = "done"
    /\ Len(topics) = 2
    /\ Cardinality(Sent("createDeck")) = 3
    /\ Cardinality(Sent("addNote")) = 4
    /\ ret = Ok(<<>>)

\* the topic the last add_notes call was made for, and its requests
LastTopic == IF step = "add_notes" THEN Len(results) + 1 ELSE Len(results)
LastCall == Len(requests) - Len(add_results)

\* C16: add_notes sends one addNote per note, in the order of the notes, and
\* its Vec holds the outcome of each at the note's position, whatever the
\* outcomes are; the Vec it returns has one result per word of the topic; once
\* a note has been sent the run does not fail, and it ends with one
\* ImportResult per topic, in topic order, every note of every topic having
\* been sent exactly once.
C16_NoNoteFailureStopsTheImport ==
    /\ Sent("addNote") # {} =>
          /\ step \in {"import", "add_notes", "done"}
          /\ LastTopic \in 1..Len(topics)
          /\ Len(add_results) <= Len(topics[LastTopic].words)
          /\ step # "add_notes" => Len(add_results) = Len(topics[LastTopic].words)
          /\ \A j \in 1..Len(add_results) :
                /\ requests[LastCall + j].action = "addNote"
                /\ requests[LastCall + j].params =
                      word_to_note(source.deck, topics[LastTopic].words[j],
                                   topics[LastTopic].name)
                /\ add_results[j] = add_note(requests[LastCall + j].reply)
    /\ \A t \in 1..Len(results) :
          /\ results[t].topic_name = topics[t].name
          /\ Cardinality(TopicRequests(t)) = Len(topics[t].words)
          /\ \A j, k \in TopicRequests(t) : j # k => requests[j].params # requests[k].params
    /\ step = "done" => Len(results) = Len(topics)

\* two topics of two words; the first note of the first topic is lost to the
\* connection, the second is refused, and the second topic is imported all the same
C16_Witness ==
    /\ step = "done"
    /\ Len(topics) = 2
    /\ Len(results) = 2
    /\ Len(topics[1].words) = 2
    /\ requests[5].reply = Transport
    /\ requests[6].reply = Refused
    /\ results[1].errors = 2
    /\ results[2].added = 2

============================================================================
